---- MODULE Spec2Model ----
(***************************************************************************)
(* Model of the secure matching engine of BeitHayal                        *)
(* (src/src/lib/matchingAlgorithm-secure.ts, second revision of the file,  *)
(* lines 398-835) and of the distance score it consumes                    *)
(* (cityDistance module, kept in src/src/components/UploadPanel.tsx).      *)
(*                                                                         *)
(* The specifications share the variables:                                 *)
(*   Spec       one call of runSecureMatchingAlgorithm(students, soldiers) *)
(*   SpecAlloc  one call of optimizeSecureMatches(map, students) on a      *)
(*              candidate map that need not hold every student             *)
(*   SpecScore  one call of calculateSecureMatch(student, soldier)         *)
(*   SpecTwice  two calls of runSecureMatchingAlgorithm on the same input  *)
(*   SpecCapacity  a second call after the students' capacity fields have  *)
(*              been changed                                               *)
(*   SpecPanel  MatchesPanel (src/unnamed/part_001) around the call: the   *)
(*              run button, the 100 ms timeout, the stored assignments,    *)
(*              summary and loading flag, updateMatchStatus                *)
(*   SpecSecure toSecureStudent / toSecureSoldier / toSecureMatch on two    *)
(*              records that differ in their personal fields               *)
(*   SpecLang   a sequence of getLanguageCode calls                        *)
(*              (src/src/lib/supabase-secure.ts)                           *)
(*                                                                         *)
(* An object reference of the source (candidate.student, match.soldier, the *)
(* candidates array shared by the map and by soldiersWithOptions) is the    *)
(* contact id of the record it points to.                                  *)
(*                                                                         *)
(* Hebrew string literals of the source are transliterated:                *)
(*   "zakhar" = male, "nekeva" = female (student gender),                  *)
(*   "lo_hashuv" = does not matter, "mitnadev"/"mitnadevet" = male/female  *)
(*   volunteer (soldier preference).                                       *)
(***************************************************************************)
EXTENDS Integers, Sequences, FiniteSets, TLC

VARIABLES
    students,            \* LocalStudent[] argument
    soldiers,            \* LocalSoldier[] argument
    pc,                  \* position inside the call
    matchesBySoldier,    \* Map<soldier id, MatchCandidate[]> in insertion order
    studentAssignments,  \* Map<student id, number>: live counters of one run
    soldiersWithOptions, \* soldier ids of the map's entries, sorted by list length
    si,                  \* index of the next entry of soldiersWithOptions
    result,              \* EnrichedMatch[] under construction
    unusedStudents,      \* students without assignment when the final pass starts
    ui,                  \* index of the next unused student
    nextId,              \* number of match records created so far
    output,              \* value returned by runSecureMatchingAlgorithm
    scIn,                \* the arguments of the function a specification applies
    scOut,               \* the value it returned
    run,                 \* number of the call in progress
    prevOutput,          \* what the first call returned, once the second began
    matches,             \* MainApp state: the stored EnrichedMatch[]
    matchingSummary,     \* MatchesPanel state: the stored summary or null
    isLoading,           \* MainApp state: the loading flag
    pending,             \* runMatching calls waiting in their 100 ms timeout
    clicks,              \* runMatching calls started so far
    dynamicLanguageCodes \* Map<name, code> of the codes minted so far

vars == <<students, soldiers, pc, matchesBySoldier, studentAssignments,
          soldiersWithOptions, si, result, unusedStudents, ui, nextId,
          output, scIn, scOut, run, prevOutput,
          matches, matchingSummary, isLoading, pending, clicks,
          dynamicLanguageCodes>>

\* The state of the page around a call.
panelVars == <<matches, matchingSummary, isLoading, pending, clicks>>

\* A missing value: null, undefined or the empty string of the source.
NULL == "NULL"

\* Bounds of the model.
MaxStudents == 3
MaxSoldiers == 3

Min(a, b) == IF a < b THEN a ELSE b
Max(a, b) == IF a > b THEN a ELSE b

\* Array.prototype.sort with a consistent comparator: stable. Before(a, b) is
\* "compare(a, b) < 0".
StableSort(s, Before(_, _)) ==
    LET n == Len(s)
        pos == [i \in 1..n |->
                   1 + Cardinality({j \in 1..n :
                        \/ Before(s[j], s[i])
                        \/ (~Before(s[i], s[j]) /\ j < i)})]
    IN  [k \in 1..n |-> s[CHOOSE i \in 1..n : pos[i] = k]]

(***************************************************************************)
(* Distance score (cityDistance)                                           *)
(***************************************************************************)

\* Six entries of the israeliCities gazetteer.
Cities == {"TLV", "RG", "NET", "JLM", "HFA", "ELT"}

\* calculateDistance on the gazetteer coordinates, in km rounded up (every
\* threshold of getDistanceScore is an integer, so x <= k iff ceil(x) <= k).
CityKm ==
    [p \in {<<"TLV","RG">>, <<"TLV","NET">>, <<"TLV","JLM">>, <<"TLV","HFA">>,
            <<"TLV","ELT">>, <<"RG","NET">>, <<"RG","JLM">>, <<"RG","HFA">>,
            <<"RG","ELT">>, <<"NET","JLM">>, <<"NET","HFA">>, <<"NET","ELT">>,
            <<"JLM","HFA">>, <<"JLM","ELT">>, <<"HFA","ELT">>} |->
        CASE p = <<"TLV","RG">>  -> 5
          [] p = <<"TLV","NET">> -> 28
          [] p = <<"TLV","JLM">> -> 54
          [] p = <<"TLV","HFA">> -> 82
          [] p = <<"TLV","ELT">> -> 282
          [] p = <<"RG","NET">>  -> 29
          [] p = <<"RG","JLM">>  -> 50
          [] p = <<"RG","HFA">>  -> 83
          [] p = <<"RG","ELT">>  -> 280
          [] p = <<"NET","JLM">> -> 71
          [] p = <<"NET","HFA">> -> 55
          [] p = <<"NET","ELT">> -> 308
          [] p = <<"JLM","HFA">> -> 116
          [] p = <<"JLM","ELT">> -> 248
          [] p = <<"HFA","ELT">> -> 360]

\* null (a city without coordinates) is returned as -1.
getCityDistance(city1, city2) ==
    IF city1 \notin Cities \/ city2 \notin Cities THEN -1
    ELSE IF city1 = city2 THEN 0
    ELSE IF <<city1, city2>> \in DOMAIN CityKm THEN CityKm[<<city1, city2>>]
    ELSE CityKm[<<city2, city1>>]

\* Variant: the scores of the 75 km and the 100 km steps exchanged.
getDistanceScoreStepsSwapped(city1, city2) ==
    LET distance == getCityDistance(city1, city2)
    IN  IF distance = -1 THEN 50
        ELSE IF distance > 150 THEN 0
        ELSE IF distance <= 10 THEN 100
        ELSE IF distance <= 30 THEN 90
        ELSE IF distance <= 50 THEN 80
        ELSE IF distance <= 75 THEN 40
        ELSE IF distance <= 100 THEN 60
        ELSE IF distance <= 150 THEN 20
        ELSE 0

getDistanceScore(city1, city2) ==
    LET distance == getCityDistance(city1, city2)
    IN  IF distance = -1 THEN 50
        ELSE IF distance > 150 THEN 0
        ELSE IF distance <= 10 THEN 100
        ELSE IF distance <= 30 THEN 90
        ELSE IF distance <= 50 THEN 80
        ELSE IF distance <= 75 THEN 60
        ELSE IF distance <= 100 THEN 40
        ELSE IF distance <= 150 THEN 20
        ELSE 0

(***************************************************************************)
(* Scoring (calculateSecureMatch)                                          *)
(***************************************************************************)

languageFamilies ==
    { {"RU", "UK", "BG", "HR", "PL"},
      {"FR", "ES", "IT", "PT", "RO"},
      {"HE", "AR"},
      {"DE", "NL", "DA"} }

\* Variant: two codes match when each is in some family.
checkLanguageMatchAnyFamily(studentLangCode, soldierLangCode) ==
    IF studentLangCode = NULL \/ soldierLangCode = NULL THEN FALSE
    ELSE IF studentLangCode = soldierLangCode THEN TRUE
    ELSE /\ \E codes \in languageFamilies : studentLangCode \in codes
         /\ \E codes \in languageFamilies : soldierLangCode \in codes

checkLanguageMatch(studentLangCode, soldierLangCode) ==
    IF studentLangCode = NULL \/ soldierLangCode = NULL THEN FALSE
    ELSE IF studentLangCode = soldierLangCode THEN TRUE
    ELSE \E codes \in languageFamilies :
            studentLangCode \in codes /\ soldierLangCode \in codes

\* Variant: a student of unknown gender matches every preference.
checkGenderMatchUnknownPasses(studentGender, soldierPref) ==
    IF soldierPref = NULL \/ soldierPref = "lo_hashuv" \/ soldierPref = "any"
    THEN TRUE
    ELSE IF studentGender = NULL THEN TRUE
    ELSE LET genderCode == IF studentGender = "zakhar" THEN "M"
                           ELSE IF studentGender = "nekeva" THEN "F"
                           ELSE studentGender
             prefCode == IF soldierPref = "male" \/ soldierPref = "mitnadev"
                         THEN "M"
                         ELSE IF soldierPref = "female" \/ soldierPref = "mitnadevet"
                         THEN "F"
                         ELSE NULL
         IN  genderCode = prefCode

checkGenderMatch(studentGender, soldierPref) ==
    IF soldierPref = NULL \/ soldierPref = "lo_hashuv" \/ soldierPref = "any"
    THEN TRUE
    ELSE IF studentGender = NULL THEN FALSE
    ELSE LET genderCode == IF studentGender = "zakhar" THEN "M"
                           ELSE IF studentGender = "nekeva" THEN "F"
                           ELSE studentGender
             prefCode == IF soldierPref = "male" \/ soldierPref = "mitnadev"
                         THEN "M"
                         ELSE IF soldierPref = "female" \/ soldierPref = "mitnadevet"
                         THEN "F"
                         ELSE NULL
         IN  genderCode = prefCode

\* Variant: the bases of the two middle rows exchanged.
tableScoreRowsSwapped(genderMatch, languageMatch, distanceScore) ==
    IF genderMatch /\ languageMatch THEN distanceScore
    ELSE IF ~genderMatch /\ languageMatch THEN 60 - (100 - distanceScore)
    ELSE IF genderMatch /\ ~languageMatch THEN 70 - (100 - distanceScore)
    ELSE 30 - (100 - distanceScore)

\* The 2 x 2 table of calculateSecureMatch, before the clamp. Every operand is
\* an integer, so Math.round leaves the value as it is.
tableScore(genderMatch, languageMatch, distanceScore) ==
    IF genderMatch /\ languageMatch THEN distanceScore
    ELSE IF ~genderMatch /\ languageMatch THEN 70 - (100 - distanceScore)
    ELSE IF genderMatch /\ ~languageMatch THEN 60 - (100 - distanceScore)
    ELSE 30 - (100 - distanceScore)

\* Variant: no floor, so a pair can score 0 or less.
clampScoreNoFloor(finalScore) == finalScore

\* Variant: floor of 0 instead of 1.
clampScoreFloorZero(finalScore) == Max(0, finalScore)

\* finalScore = Math.max(1, Math.round(finalScore))
clampScore(finalScore) == Max(1, finalScore)

calculateSecureMatch(student, soldier) ==
    LET genderMatch == checkGenderMatch(student.gender,
                                        soldier.volunteer_gender_preference)
        languageMatch == checkLanguageMatch(student.mother_tongue_code,
                                            soldier.mother_tongue_code)
        distanceScore == getDistanceScore(student.city, soldier.city)
    IN  [ student  |-> student.contact_id,
          soldier  |-> soldier.contact_id,
          score    |-> clampScore(tableScore(genderMatch, languageMatch,
                                              distanceScore)),
          criteria |-> [ language_match    |-> languageMatch,
                         distance_score    |-> distanceScore,
                         gender_pref_match |-> genderMatch,
                         region_match      |-> student.region = soldier.region ] ]

(***************************************************************************)
(* Candidate generation (findAllSecureMatches)                             *)
(***************************************************************************)

\* Map.set on a map kept as the sequence of its entries in insertion order.
MapSet(map, key, value) ==
    IF \E i \in 1..Len(map) : map[i].soldierId = key
    THEN [i \in 1..Len(map) |->
            IF map[i].soldierId = key
            THEN [soldierId |-> key, candidates |-> value] ELSE map[i]]
    ELSE Append(map, [soldierId |-> key, candidates |-> value])

\* Map.get
candidatesFor(map, key) ==
    map[CHOOSE i \in 1..Len(map) : map[i].soldierId = key].candidates

\* b.score - a.score < 0
ScoreDesc(a, b) == b.score < a.score

\* Variant: students without a free slot are no candidates.
candidatesOfFreeStudents(studs, soldier) ==
    LET free == SelectSeq(studs, LAMBDA st : st.capacity.available_slots > 0)
        all == [i \in 1..Len(free) |-> calculateSecureMatch(free[i], soldier)]
    IN  StableSort(SelectSeq(all, LAMBDA m : m.score > 0), ScoreDesc)

\* Variant: the list is cut after its best MaxStudents - 1 entries, as the
\* earlier revision cut it after 10.
candidatesOfTruncated(studs, soldier) ==
    LET all == [i \in 1..Len(studs) |-> calculateSecureMatch(studs[i], soldier)]
        sorted == StableSort(SelectSeq(all, LAMBDA m : m.score > 0), ScoreDesc)
    IN  SubSeq(sorted, 1, Min(Len(sorted), MaxStudents - 1))

\* The candidates of one soldier: every student whose match has score > 0,
\* sorted by score descending.
candidatesOf(studs, soldier) ==
    LET all == [i \in 1..Len(studs) |-> calculateSecureMatch(studs[i], soldier)]
    IN  StableSort(SelectSeq(all, LAMBDA m : m.score > 0), ScoreDesc)

RECURSIVE findAllFrom(_, _, _, _)
findAllFrom(studs, solds, j, map) ==
    IF j > Len(solds) THEN map
    ELSE findAllFrom(studs, solds, j + 1,
                     MapSet(map, solds[j].contact_id, candidatesOf(studs, solds[j])))

findAllSecureMatches(studs, solds) == findAllFrom(studs, solds, 1, <<>>)

(***************************************************************************)
(* Allocation (optimizeSecureMatches)                                      *)
(***************************************************************************)

\* studentAssignments.get(id) || 0
countOf(counts, id) == IF id \in DOMAIN counts THEN counts[id] ELSE 0

\* Variant: most options first.
MoreOptions(a, b) == Len(b.candidates) < Len(a.candidates)

\* a.candidates.length - b.candidates.length < 0
FewerOptions(a, b) == Len(a.candidates) < Len(b.candidates)

\* Variant: the student with more assignments comes first.
MoreLoaded(counts, a, b) ==
    LET aAssigned == countOf(counts, a.student)
        bAssigned == countOf(counts, b.student)
    IN  IF aAssigned # bAssigned THEN aAssigned > bAssigned
        ELSE b.score < a.score

\* Variant: the re-sort compares scores only.
ByScoreOnly(counts, a, b) == b.score < a.score

\* The comparator of the load-balancing re-sort: fewer assignments first,
\* then higher score.
LessLoaded(counts, a, b) ==
    LET aAssigned == countOf(counts, a.student)
        bAssigned == countOf(counts, b.student)
    IN  IF aAssigned # bAssigned THEN aAssigned < bAssigned
        ELSE b.score < a.score

\* Variant: the list is walked as the map holds it, by score.
notResorted(counts, candidates) == candidates

sortedCandidates(counts, candidates) ==
    StableSort(candidates, LAMBDA a, b : LessLoaded(counts, a, b))

newMatch(id, candidate, rank) ==
    [ id                  |-> id,
      student_external_id |-> candidate.student,
      soldier_external_id |-> candidate.soldier,
      confidence_score    |-> candidate.score,
      match_rank          |-> rank,
      match_criteria      |-> candidate.criteria,
      status              |-> "suggested",
      student             |-> candidate.student,
      soldier             |-> candidate.soldier ]

\* Variant: the loop stops after one assignment.
RECURSIVE assignWalkStopAtOne(_, _, _)
assignWalkStopAtOne(cands, assignedForSoldier, base) ==
    IF cands = <<>> \/ Len(assignedForSoldier) >= 1 THEN assignedForSoldier
    ELSE assignWalkStopAtOne(Tail(cands),
             Append(assignedForSoldier,
                    newMatch(base + Len(assignedForSoldier) + 1,
                             Head(cands), Len(assignedForSoldier) + 1)),
             base)

\* Variant: no check that the student is already assigned to this soldier.
RECURSIVE assignWalkNoSkip(_, _, _)
assignWalkNoSkip(cands, assignedForSoldier, base) ==
    IF cands = <<>> \/ Len(assignedForSoldier) >= 2 THEN assignedForSoldier
    ELSE assignWalkNoSkip(Tail(cands),
             Append(assignedForSoldier,
                    newMatch(base + Len(assignedForSoldier) + 1,
                             Head(cands), Len(assignedForSoldier) + 1)),
             base)

\* Variant: ranks counted down, the first assignment gets rank 2.
RECURSIVE assignWalkRanksReversed(_, _, _)
assignWalkRanksReversed(cands, assignedForSoldier, base) ==
    IF cands = <<>> \/ Len(assignedForSoldier) >= 2 THEN assignedForSoldier
    ELSE LET candidate == Head(cands)
             studentId == candidate.student
         IN  IF \E i \in 1..Len(assignedForSoldier) :
                    assignedForSoldier[i].student_external_id = studentId
             THEN assignWalkRanksReversed(Tail(cands), assignedForSoldier, base)
             ELSE assignWalkRanksReversed(Tail(cands),
                      Append(assignedForSoldier,
                             newMatch(base + Len(assignedForSoldier) + 1,
                                      candidate, 2 - Len(assignedForSoldier))),
                      base)

\* The inner loop over sortedCandidates: stop at two, skip a student already
\* assigned to this soldier. Match ids are numbered in creation order from
\* base + 1 (they stand for the fresh UUIDs of the source).
RECURSIVE assignWalk(_, _, _)
assignWalk(cands, assignedForSoldier, base) ==
    IF cands = <<>> \/ Len(assignedForSoldier) >= 2 THEN assignedForSoldier
    ELSE LET candidate == Head(cands)
             studentId == candidate.student
         IN  IF \E i \in 1..Len(assignedForSoldier) :
                    assignedForSoldier[i].student_external_id = studentId
             THEN assignWalk(Tail(cands), assignedForSoldier, base)
             ELSE assignWalk(Tail(cands),
                      Append(assignedForSoldier,
                             newMatch(base + Len(assignedForSoldier) + 1,
                                      candidate, Len(assignedForSoldier) + 1)),
                      base)

\* Variant: every assignment of the soldier increments its student's counter.
RECURSIVE countsAfterEveryRank(_, _)
countsAfterEveryRank(counts, assignedForSoldier) ==
    IF assignedForSoldier = <<>> THEN counts
    ELSE LET studentId == assignedForSoldier[1].student_external_id
         IN  countsAfterEveryRank(
                 [id \in DOMAIN counts \cup {studentId} |->
                     IF id = studentId THEN countOf(counts, id) + 1 ELSE counts[id]],
                 Tail(assignedForSoldier))

\* Only the rank-1 assignment increments its student's counter.
countsAfter(counts, assignedForSoldier) ==
    IF assignedForSoldier = <<>> THEN counts
    ELSE LET studentId == assignedForSoldier[1].student_external_id
         IN  [id \in DOMAIN counts \cup {studentId} |->
                 IF id = studentId THEN countOf(counts, id) + 1 ELSE counts[id]]

\* Variant: only the holders of a rank-1 assignment count as used.
unusedOfRank1Holders(studs, res) ==
    SelectSeq(studs, LAMBDA s :
        \A i \in 1..Len(res) :
            res[i].match_rank = 1 => res[i].student_external_id # s.contact_id)

\* students.filter(s => !usedStudentIds.has(s.contact_id))
unusedOf(studs, res) ==
    SelectSeq(studs, LAMBDA s :
        \A i \in 1..Len(res) : res[i].student_external_id # s.contact_id)

\* Variant: the scan does not skip the rank-1 slots.
RECURSIVE swapScanAnyRank(_, _, _, _)
swapScanAnyRank(res, counts, i, best) ==
    IF i > Len(res) THEN best
    ELSE LET assignedCount == countOf(counts, res[i].student_external_id)
         IN  IF assignedCount > best[2]
             THEN swapScanAnyRank(res, counts, i + 1, <<i, assignedCount>>)
             ELSE swapScanAnyRank(res, counts, i + 1, best)

\* Variant: the index is kept from the first rank-2 slot seen, only the count
\* follows the maximum.
RECURSIVE swapScanFirstSlot(_, _, _, _)
swapScanFirstSlot(res, counts, i, best) ==
    IF i > Len(res) THEN best
    ELSE IF res[i].match_rank # 2 THEN swapScanFirstSlot(res, counts, i + 1, best)
    ELSE LET assignedCount == countOf(counts, res[i].student_external_id)
         IN  IF assignedCount > best[2]
             THEN swapScanFirstSlot(res, counts, i + 1,
                      <<IF best[1] = 0 THEN i ELSE best[1], assignedCount>>)
             ELSE swapScanFirstSlot(res, counts, i + 1, best)

\* The scan of the final pass: the first rank-2 slot whose holder has the
\* strictly largest live count. best = <<bestSwapIdx, bestOverload>>, with
\* index 0 for the source's -1.
RECURSIVE swapScan(_, _, _, _)
swapScan(res, counts, i, best) ==
    IF i > Len(res) THEN best
    ELSE IF res[i].match_rank # 2 THEN swapScan(res, counts, i + 1, best)
    ELSE LET assignedCount == countOf(counts, res[i].student_external_id)
         IN  IF assignedCount > best[2]
             THEN swapScan(res, counts, i + 1, <<i, assignedCount>>)
             ELSE swapScan(res, counts, i + 1, best)

bestSwap(res, counts) == swapScan(res, counts, 1, <<0, 0>>)

\* The record a reference points to.
recordOf(records, id) ==
    records[CHOOSE i \in 1..Len(records) : records[i].contact_id = id]

\* The record that replaces result[bestSwapIdx].
swappedMatch(id, unusedStudent, oldMatch, solds) ==
    LET newCandidate == calculateSecureMatch(unusedStudent,
                                             recordOf(solds, oldMatch.soldier))
    IN  [ id                  |-> id,
          student_external_id |-> unusedStudent.contact_id,
          soldier_external_id |-> oldMatch.soldier_external_id,
          confidence_score    |-> newCandidate.score,
          match_rank          |-> 2,
          match_criteria      |-> newCandidate.criteria,
          status              |-> "suggested",
          student             |-> unusedStudent.contact_id,
          soldier             |-> oldMatch.soldier ]

(***************************************************************************)
(* Summary (runSecureMatchingAlgorithm)                                    *)
(***************************************************************************)

\* b.confidence_score - a.confidence_score < 0
ConfidenceDesc(a, b) == b.confidence_score < a.confidence_score

RECURSIVE sumScores(_)
sumScores(ms) ==
    IF ms = <<>> THEN 0 ELSE Head(ms).confidence_score + sumScores(Tail(ms))

\* Math.round(a / b) for a >= 0, b > 0
roundDiv(a, b) == (2 * a + b) \div (2 * b)

countWhere(ms, P(_)) == Len(SelectSeq(ms, P))

\* Variant: counts every soldier with at least one match.
soldiersWithOneAtLeast(matchesBySoldierId) ==
    Cardinality({id \in DOMAIN matchesBySoldierId : matchesBySoldierId[id] >= 1})

\* Array.from(matchesBySoldierId.values()).filter(c => c === 1).length
soldiersWithOne(matchesBySoldierId) ==
    Cardinality({id \in DOMAIN matchesBySoldierId : matchesBySoldierId[id] = 1})

\* Array.from(matchesBySoldierId.values()).filter(c => c >= 2).length
soldiersWithTwo(matchesBySoldierId) ==
    Cardinality({id \in DOMAIN matchesBySoldierId : matchesBySoldierId[id] >= 2})

\* Variant: counts the zero entries of the map, which has none.
soldiersWithNoneFromMap(solds, matchesBySoldierId) ==
    Cardinality({id \in DOMAIN matchesBySoldierId : matchesBySoldierId[id] = 0})

\* awaitingSoldiers.length - matchesBySoldierId.size
soldiersWithNone(solds, matchesBySoldierId) ==
    Len(solds) - Cardinality(DOMAIN matchesBySoldierId)

buildSummary(studs, solds, optimizedMatches) ==
    LET soldierIds == {optimizedMatches[i].soldier_external_id :
                            i \in 1..Len(optimizedMatches)}
        matchesBySoldierId == [id \in soldierIds |->
            countWhere(optimizedMatches, LAMBDA m : m.soldier_external_id = id)]
        usedStudentIds == {optimizedMatches[i].student_external_id :
                            i \in 1..Len(optimizedMatches)}
    IN  [ totalStudents          |-> Len(studs),
          totalSoldiers          |-> Len(solds),
          totalMatches           |-> Len(optimizedMatches),
          soldiersWithTwoMatches |-> soldiersWithTwo(matchesBySoldierId),
          soldiersWithOneMatch   |-> soldiersWithOne(matchesBySoldierId),
          soldiersWithNoMatch    |-> soldiersWithNone(solds, matchesBySoldierId),
          studentsUsed           |-> Cardinality(usedStudentIds),
          studentsNotUsed        |-> Len(studs) - Cardinality(usedStudentIds),
          avgScore               |->
              IF Len(optimizedMatches) > 0
              THEN roundDiv(sumScores(optimizedMatches), Len(optimizedMatches))
              ELSE 0,
          highScoreMatches       |->
              countWhere(optimizedMatches, LAMBDA m : m.confidence_score >= 70),
          mediumScoreMatches     |->
              countWhere(optimizedMatches, LAMBDA m :
                  m.confidence_score >= 30 /\ m.confidence_score < 70),
          lowScoreMatches        |->
              countWhere(optimizedMatches, LAMBDA m : m.confidence_score < 30) ]

(***************************************************************************)
(* Inputs                                                                  *)
(***************************************************************************)

\* region of a gazetteer entry (the parser fills region from the city)
regionOf(city) ==
    IF city \in {"TLV", "RG", "NET"} THEN "center"
    ELSE IF city = "JLM" THEN "jerusalem"
    ELSE IF city = "HFA" THEN "north"
    ELSE IF city = "ELT" THEN "south"
    ELSE NULL

\* The capacity fields as parseStudentsFile fills them.
capacityOf(currentCount, isScholarship) ==
    LET maxSoldiers == IF isScholarship THEN 2 ELSE 4
    IN  [ current_soldiers_count |-> currentCount,
          is_scholarship_active  |-> isScholarship,
          max_soldiers           |-> maxSoldiers,
          available_slots        |-> Max(0, maxSoldiers - currentCount) ]

\* A student without soldiers and without scholarship.
mkStudent(id, gender, city, code) ==
    [ contact_id |-> id, gender |-> gender, city |-> city,
      region |-> regionOf(city), mother_tongue_code |-> code,
      capacity |-> capacityOf(0, FALSE) ]

mkSoldier(id, pref, city, code) ==
    [ contact_id |-> id, volunteer_gender_preference |-> pref, city |-> city,
      region |-> regionOf(city), mother_tongue_code |-> code ]

\* Attribute combinations the students and soldiers of a run are drawn from:
\* <<gender or preference, city, language code>>.
StudentProfiles ==
    << <<"nekeva", "TLV", "HE">>,
       <<"zakhar", "HFA", "RU">>,
       <<NULL, NULL, NULL>> >>

SoldierProfiles ==
    << <<"female", "TLV", "HE">>,
       <<NULL, NULL, NULL>>,
       <<"male", "JLM", "UK">> >>

\* Sequences of length n over 1..k
SeqsOf(n, k) == [1..n -> 1..k]

studentsFrom(choice) ==
    [i \in DOMAIN choice |->
        mkStudent(i, StudentProfiles[choice[i]][1], StudentProfiles[choice[i]][2],
                  StudentProfiles[choice[i]][3])]

soldiersFrom(choice) ==
    [j \in DOMAIN choice |->
        mkSoldier(j, SoldierProfiles[choice[j]][1], SoldierProfiles[choice[j]][2],
                  SoldierProfiles[choice[j]][3])]

\* The i-th record takes the profiles in turn.
cyclic(n, k) == [i \in 1..n |-> ((i - 1) % k) + 1]

NoOutput == [matches |-> <<>>, summary |-> NULL]
NoScore == [student |-> NULL, soldier |-> NULL]

InitCall ==
    /\ studentAssignments = <<>>
    /\ soldiersWithOptions = <<>>
    /\ si = 1
    /\ result = <<>>
    /\ unusedStudents = <<>>
    /\ ui = 1
    /\ nextId = 0
    /\ output = NoOutput
    /\ scIn = NoScore
    /\ scOut = NULL
    /\ run = 1
    /\ prevOutput = NoOutput
    /\ matches = <<>>
    /\ matchingSummary = NULL
    /\ isLoading = FALSE
    /\ pending = 0
    /\ clicks = 0
    /\ dynamicLanguageCodes = <<>>

\* runSecureMatchingAlgorithm(students, soldiers) with unique contact ids.
Init ==
    /\ \E n \in 0..MaxStudents : \E c \in SeqsOf(n, Len(StudentProfiles)) :
          students = studentsFrom(c)
    /\ \E m \in 0..MaxSoldiers : \E c \in SeqsOf(m, Len(SoldierProfiles)) :
          soldiers = soldiersFrom(c)
    /\ matchesBySoldier = <<>>
    /\ pc = "start"
    /\ InitCall

\* Keeps the elements of s whose index is in keep.
RECURSIVE subSeq(_, _, _)
subSeq(s, keep, i) ==
    IF i > Len(s) THEN <<>>
    ELSE IF i \in keep THEN <<s[i]>> \o subSeq(s, keep, i + 1)
    ELSE subSeq(s, keep, i + 1)

RECURSIVE mapFrom(_, _, _, _, _)
mapFrom(studs, solds, viable, dup, j) ==
    IF j > Len(solds) THEN <<>>
    ELSE LET listed == subSeq(studs, viable[j], 1)
             given == IF dup THEN listed \o listed ELSE listed
         IN  <<[soldierId |-> solds[j].contact_id,
                candidates |-> candidatesOf(given, solds[j])]>>
             \o mapFrom(studs, solds, viable, dup, j + 1)

\* Runs of consecutive students: the candidate sets a map is drawn from.
Intervals(n) == {lo..hi : lo \in 1..n, hi \in 0..n}

\* optimizeSecureMatches(matchesBySoldier, students) on a map whose lists hold
\* a run of the students (each once, or each twice when dup), sorted by score
\* as findAllSecureMatches leaves them.
InitAlloc ==
    /\ \E n \in 0..MaxStudents : students = studentsFrom(cyclic(n, Len(StudentProfiles)))
    /\ \E m \in 0..MaxSoldiers : soldiers = soldiersFrom(cyclic(m, Len(SoldierProfiles)))
    /\ \E viable \in [1..Len(soldiers) -> Intervals(Len(students))] :
       \E dup \in BOOLEAN :
          matchesBySoldier = mapFrom(students, soldiers, viable, dup, 1)
    /\ pc = "optimize"
    /\ InitCall

(***************************************************************************)
(* Steps                                                                   *)
(***************************************************************************)

unchangedInputs ==
    UNCHANGED <<students, soldiers, dynamicLanguageCodes, scIn, scOut, run,
                prevOutput, panelVars>>

\* const allMatches = findAllSecureMatches(availableStudents, awaitingSoldiers)
FindAll ==
    /\ pc = "start"
    /\ matchesBySoldier' = findAllSecureMatches(students, soldiers)
    /\ pc' = "optimize"
    /\ unchangedInputs
    /\ UNCHANGED <<studentAssignments, soldiersWithOptions, si, result,
                   unusedStudents, ui, nextId, output>>

\* Variant: the counters live outside the function and are zeroed only when
\* they do not exist yet.
BeginOptimizeSharedCounters ==
    /\ pc = "optimize"
    /\ result' = <<>>
    /\ studentAssignments' =
           IF studentAssignments # <<>> THEN studentAssignments
           ELSE [id \in {students[i].contact_id : i \in 1..Len(students)} |-> 0]
    /\ soldiersWithOptions' =
           LET sorted == StableSort(matchesBySoldier, FewerOptions)
           IN  [q \in 1..Len(sorted) |-> sorted[q].soldierId]
    /\ si' = 1
    /\ pc' = "assign"
    /\ unchangedInputs
    /\ UNCHANGED <<matchesBySoldier, unusedStudents, ui, nextId, output>>

\* Entry of optimizeSecureMatches: zeroed counters, entries sorted by length.
BeginOptimize ==
    /\ pc = "optimize"
    /\ result' = <<>>
    /\ studentAssignments' =
           [id \in {students[i].contact_id : i \in 1..Len(students)} |-> 0]
    /\ soldiersWithOptions' =
           LET sorted == StableSort(matchesBySoldier, FewerOptions)
           IN  [q \in 1..Len(sorted) |-> sorted[q].soldierId]
    /\ si' = 1
    /\ pc' = "assign"
    /\ unchangedInputs
    /\ UNCHANGED <<matchesBySoldier, unusedStudents, ui, nextId, output>>

\* One iteration of the loop over soldiersWithOptions.
ProcessSoldier ==
    /\ pc = "assign"
    /\ si <= Len(soldiersWithOptions)
    /\ LET candidates == candidatesFor(matchesBySoldier, soldiersWithOptions[si])
           assignedForSoldier ==
               IF Len(candidates) = 0 THEN <<>>
               ELSE assignWalk(sortedCandidates(studentAssignments, candidates),
                               <<>>, nextId)
       IN  /\ result' = result \o assignedForSoldier
           /\ studentAssignments' = countsAfter(studentAssignments, assignedForSoldier)
           /\ nextId' = nextId + Len(assignedForSoldier)
    /\ si' = si + 1
    /\ unchangedInputs
    /\ UNCHANGED <<pc, matchesBySoldier, soldiersWithOptions, unusedStudents,
                   ui, output>>

\* After the loop: the students that appear in no assignment.
BeginFinalPass ==
    /\ pc = "assign"
    /\ si > Len(soldiersWithOptions)
    /\ unusedStudents' = unusedOf(students, result)
    /\ ui' = 1
    /\ pc' = "finalpass"
    /\ unchangedInputs
    /\ UNCHANGED <<matchesBySoldier, studentAssignments, soldiersWithOptions,
                   si, result, nextId, output>>

\* One iteration of the loop over unusedStudents.
RebalanceStep ==
    /\ pc = "finalpass"
    /\ ui <= Len(unusedStudents)
    /\ LET unusedStudent == unusedStudents[ui]
           best == bestSwap(result, studentAssignments)
           bestSwapIdx == best[1]
           bestOverload == best[2]
       IN  IF bestSwapIdx >= 1 /\ bestOverload > 1
           THEN /\ result' = [result EXCEPT ![bestSwapIdx] =
                       swappedMatch(nextId + 1, unusedStudent, result[bestSwapIdx],
                                    soldiers)]
                /\ studentAssignments' =
                       [id \in DOMAIN studentAssignments \cup {unusedStudent.contact_id} |->
                           IF id = unusedStudent.contact_id
                           THEN countOf(studentAssignments, id) + 1
                           ELSE studentAssignments[id]]
                /\ nextId' = nextId + 1
           ELSE UNCHANGED <<result, studentAssignments, nextId>>
    /\ ui' = ui + 1
    /\ unchangedInputs
    /\ UNCHANGED <<pc, matchesBySoldier, soldiersWithOptions, si,
                   unusedStudents, output>>

\* return result
ReturnOptimize ==
    /\ pc = "finalpass"
    /\ ui > Len(unusedStudents)
    /\ pc' = "returned"
    /\ unchangedInputs
    /\ UNCHANGED <<matchesBySoldier, studentAssignments, soldiersWithOptions,
                   si, result, unusedStudents, ui, nextId, output>>

\* The rest of runSecureMatchingAlgorithm: sort in place by score, summary.
FinishRun ==
    /\ pc = "returned"
    /\ LET optimizedMatches == StableSort(result, ConfidenceDesc)
       IN  /\ result' = optimizedMatches
           /\ output' = [ matches |-> optimizedMatches,
                          summary |-> buildSummary(students, soldiers,
                                                   optimizedMatches) ]
    /\ pc' = "done"
    /\ unchangedInputs
    /\ UNCHANGED <<matchesBySoldier, studentAssignments, soldiersWithOptions,
                   si, unusedStudents, ui, nextId>>

Allocate ==
    \/ BeginOptimize
    \/ ProcessSoldier
    \/ BeginFinalPass
    \/ RebalanceStep
    \/ ReturnOptimize

Next == FindAll \/ Allocate \/ FinishRun

Spec == Init /\ [][Next]_vars

NextAlloc == Allocate

SpecAlloc == InitAlloc /\ [][NextAlloc]_vars

(***************************************************************************)
(* One call of calculateSecureMatch                                        *)
(***************************************************************************)

StudentGenders == {"zakhar", "nekeva", "M", NULL}
SoldierPrefs ==
    {NULL, "any", "lo_hashuv", "male", "female", "mitnadev", "mitnadevet", "me'orav"}
LangCodes == {NULL, "HE", "AR", "RU", "EN"}
CityNames == Cities \cup {NULL}

InitScore ==
    /\ \E g \in StudentGenders, sc \in CityNames, sl \in LangCodes,
          p \in SoldierPrefs, dc \in CityNames, dl \in LangCodes :
          scIn = [ student |-> mkStudent(1, g, sc, sl),
                   soldier |-> mkSoldier(1, p, dc, dl) ]
    /\ scOut = NULL
    /\ pc = "score"
    /\ students = <<>>
    /\ soldiers = <<>>
    /\ matchesBySoldier = <<>>
    /\ studentAssignments = <<>>
    /\ soldiersWithOptions = <<>>
    /\ si = 1
    /\ result = <<>>
    /\ unusedStudents = <<>>
    /\ ui = 1
    /\ nextId = 0
    /\ output = NoOutput
    /\ run = 1
    /\ prevOutput = NoOutput
    /\ matches = <<>>
    /\ matchingSummary = NULL
    /\ isLoading = FALSE
    /\ pending = 0
    /\ clicks = 0
    /\ dynamicLanguageCodes = <<>>

Score ==
    /\ pc = "score"
    /\ scOut' = calculateSecureMatch(scIn.student, scIn.soldier)
    /\ pc' = "scored"
    /\ UNCHANGED <<students, soldiers, matchesBySoldier, studentAssignments,
                   soldiersWithOptions, si, result, unusedStudents, ui, nextId,
                   output, dynamicLanguageCodes, scIn, run, prevOutput, panelVars>>

NextScore == Score

SpecScore == InitScore /\ [][NextScore]_vars

(***************************************************************************)
(* calculateSecureMatch over every pair of language codes                  *)
(***************************************************************************)

\* The codes of the four families, a code outside them, and a missing code.
FamilyCodes == (UNION languageFamilies) \cup {"EN", NULL}

InitFamilies ==
    /\ \E g \in {"zakhar", NULL}, p \in {NULL, "mitnadev"}, dc \in {"TLV", NULL},
          sl \in FamilyCodes, dl \in FamilyCodes :
          scIn = [ student |-> mkStudent(1, g, "TLV", sl),
                   soldier |-> mkSoldier(1, p, dc, dl) ]
    /\ scOut = NULL
    /\ pc = "score"
    /\ students = <<>>
    /\ soldiers = <<>>
    /\ matchesBySoldier = <<>>
    /\ studentAssignments = <<>>
    /\ soldiersWithOptions = <<>>
    /\ si = 1
    /\ result = <<>>
    /\ unusedStudents = <<>>
    /\ ui = 1
    /\ nextId = 0
    /\ output = NoOutput
    /\ run = 1
    /\ prevOutput = NoOutput
    /\ matches = <<>>
    /\ matchingSummary = NULL
    /\ isLoading = FALSE
    /\ pending = 0
    /\ clicks = 0
    /\ dynamicLanguageCodes = <<>>

SpecFamilies == InitFamilies /\ [][NextScore]_vars

(***************************************************************************)
(* Two calls in a row                                                      *)
(***************************************************************************)

\* The caller invokes runSecureMatchingAlgorithm again with the same arrays.
\* The locals of the first call are garbage; the second call creates its own.
RunAgain ==
    /\ pc = "done"
    /\ run = 1
    /\ run' = 2
    /\ prevOutput' = output
    /\ pc' = "start"
    /\ UNCHANGED <<students, soldiers, matchesBySoldier, studentAssignments,
                   soldiersWithOptions, si, result, unusedStudents, ui, nextId,
                   output, dynamicLanguageCodes, scIn, scOut, panelVars>>

NextTwice == Next \/ RunAgain

SpecTwice == Init /\ [][NextTwice]_vars

\* <<current_soldiers_count, is_scholarship_active>> of re-parsed students.
CapacityProfiles == << <<2, TRUE>>, <<1, FALSE>>, <<5, FALSE>> >>

\* The students with other capacity fields: student i takes profile i + k.
recapacitated(studs, k) ==
    [i \in 1..Len(studs) |->
        LET c == CapacityProfiles[((i + k) % Len(CapacityProfiles)) + 1]
        IN  [studs[i] EXCEPT !.capacity = capacityOf(c[1], c[2])]]

\* The caller invokes runSecureMatchingAlgorithm again with student records
\* that differ from the first ones in the capacity fields only.
RunWithOtherCapacity ==
    /\ pc = "done"
    /\ run = 1
    /\ \E k \in 1..2 : students' = recapacitated(students, k)
    /\ run' = 2
    /\ prevOutput' = output
    /\ pc' = "start"
    /\ UNCHANGED <<soldiers, matchesBySoldier, studentAssignments,
                   soldiersWithOptions, si, result, unusedStudents, ui, nextId,
                   output, dynamicLanguageCodes, scIn, scOut, panelVars>>

NextCapacity == Next \/ RunWithOtherCapacity

SpecCapacity == Init /\ [][NextCapacity]_vars

(***************************************************************************)
(* The capacity-enforcing revision of optimizeSecureMatches                *)
(* (matchingAlgorithm-secure.ts lines 161-253)                             *)
(***************************************************************************)

\* candidate.student.is_scholarship_active ? 2 : 4
maxCountOf(studs, studentId) ==
    IF recordOf(studs, studentId).capacity.is_scholarship_active THEN 2 ELSE 4

\* Variant: a student at its maximum still passes the capacity test.
RECURSIVE legacyWalkUpToMax(_, _, _, _, _, _)
legacyWalkUpToMax(cands, assignedForSoldier, counts, base, studs, forced) ==
    IF cands = <<>> \/ Len(assignedForSoldier) >= 2
    THEN [assigned |-> assignedForSoldier, counts |-> counts]
    ELSE LET candidate == Head(cands)
             studentId == candidate.student
             currentCount == countOf(counts, studentId)
             rank == Len(assignedForSoldier) + 1
         IN  IF \E i \in 1..Len(assignedForSoldier) :
                    assignedForSoldier[i].student_external_id = studentId
             THEN legacyWalkUpToMax(Tail(cands), assignedForSoldier, counts, base,
                                    studs, forced)
             ELSE IF forced \/ currentCount <= maxCountOf(studs, studentId)
             THEN legacyWalkUpToMax(
                      Tail(cands),
                      Append(assignedForSoldier, newMatch(base + rank, candidate, rank)),
                      IF rank = 1
                      THEN [id \in DOMAIN counts \cup {studentId} |->
                               IF id = studentId THEN currentCount + 1 ELSE counts[id]]
                      ELSE counts,
                      base, studs, forced)
             ELSE legacyWalkUpToMax(Tail(cands), assignedForSoldier, counts, base,
                                    studs, forced)

\* One pass over a soldier's candidates: the first pass takes a student only
\* below its maximum, the forced pass takes any; both stop at two assignments,
\* skip a student the soldier already has, and count rank 1 only.
RECURSIVE legacyWalk(_, _, _, _, _, _)
legacyWalk(cands, assignedForSoldier, counts, base, studs, forced) ==
    IF cands = <<>> \/ Len(assignedForSoldier) >= 2
    THEN [assigned |-> assignedForSoldier, counts |-> counts]
    ELSE LET candidate == Head(cands)
             studentId == candidate.student
             currentCount == countOf(counts, studentId)
             rank == Len(assignedForSoldier) + 1
         IN  IF \E i \in 1..Len(assignedForSoldier) :
                    assignedForSoldier[i].student_external_id = studentId
             THEN legacyWalk(Tail(cands), assignedForSoldier, counts, base, studs,
                             forced)
             ELSE IF forced \/ currentCount < maxCountOf(studs, studentId)
             THEN legacyWalk(
                      Tail(cands),
                      Append(assignedForSoldier, newMatch(base + rank, candidate, rank)),
                      IF rank = 1
                      THEN [id \in DOMAIN counts \cup {studentId} |->
                               IF id = studentId THEN currentCount + 1 ELSE counts[id]]
                      ELSE counts,
                      base, studs, forced)
             ELSE legacyWalk(Tail(cands), assignedForSoldier, counts, base, studs,
                             forced)

\* Both passes for one soldier.
legacyAssign(cands, counts, base, studs) ==
    LET first == legacyWalk(cands, <<>>, counts, base, studs, FALSE)
    IN  IF Len(first.assigned) < 2
        THEN legacyWalk(cands, first.assigned, first.counts, base, studs, TRUE)
        ELSE first

\* The students with the capacity profiles that choice names.
withCapacities(studs, choice) ==
    [i \in 1..Len(studs) |->
        LET c == CapacityProfiles[choice[i]]
        IN  [studs[i] EXCEPT !.capacity = capacityOf(c[1], c[2])]]

\* optimizeSecureMatches(map, students) of that revision, on students that
\* already have soldiers and on a map whose lists hold the first students
\* (each once), sorted by score.
InitLegacy ==
    /\ \E n \in 0..MaxStudents : \E choice \in SeqsOf(n, Len(CapacityProfiles)) :
          students = withCapacities(studentsFrom(cyclic(n, Len(StudentProfiles))),
                                    choice)
    /\ \E m \in 0..MaxSoldiers : soldiers = soldiersFrom(cyclic(m, Len(SoldierProfiles)))
    /\ \E viable \in [1..Len(soldiers) -> {1..h : h \in 0..Len(students)}] :
          matchesBySoldier = mapFrom(students, soldiers, viable, FALSE, 1)
    /\ pc = "legacy"
    /\ InitCall

\* Entry: counters set to current_soldiers_count, entries sorted by length.
BeginLegacy ==
    /\ pc = "legacy"
    /\ result' = <<>>
    /\ studentAssignments' =
           [id \in {students[i].contact_id : i \in 1..Len(students)} |->
               recordOf(students, id).capacity.current_soldiers_count]
    /\ soldiersWithOptions' =
           LET sorted == StableSort(matchesBySoldier, FewerOptions)
           IN  [q \in 1..Len(sorted) |-> sorted[q].soldierId]
    /\ si' = 1
    /\ pc' = "legacyassign"
    /\ unchangedInputs
    /\ UNCHANGED <<matchesBySoldier, unusedStudents, ui, nextId, output>>

\* One iteration of the loop over soldiersWithOptions.
ProcessSoldierLegacy ==
    /\ pc = "legacyassign"
    /\ si <= Len(soldiersWithOptions)
    /\ LET candidates == candidatesFor(matchesBySoldier, soldiersWithOptions[si])
           done == IF Len(candidates) = 0
                   THEN [assigned |-> <<>>, counts |-> studentAssignments]
                   ELSE legacyAssign(candidates, studentAssignments, nextId, students)
       IN  /\ result' = result \o done.assigned
           /\ studentAssignments' = done.counts
           /\ nextId' = nextId + Len(done.assigned)
    /\ si' = si + 1
    /\ unchangedInputs
    /\ UNCHANGED <<pc, matchesBySoldier, soldiersWithOptions, unusedStudents,
                   ui, output>>

\* return result
ReturnLegacy ==
    /\ pc = "legacyassign"
    /\ si > Len(soldiersWithOptions)
    /\ pc' = "legacydone"
    /\ unchangedInputs
    /\ UNCHANGED <<matchesBySoldier, studentAssignments, soldiersWithOptions,
                   si, result, unusedStudents, ui, nextId, output>>

NextLegacy == BeginLegacy \/ ProcessSoldierLegacy \/ ReturnLegacy

SpecLegacy == InitLegacy /\ [][NextLegacy]_vars

(***************************************************************************)
(* MatchesPanel: runMatching and updateMatchStatus                         *)
(***************************************************************************)

\* Number of times the run button is pressed.
MaxRuns == 2

\* The locals of one call of runSecureMatchingAlgorithm.
callVars == <<matchesBySoldier, studentAssignments, soldiersWithOptions, si,
              result, unusedStudents, ui, output>>

\* The page with both files loaded (or no student file yet; with more students
\* than the soldiers can take, or not), no stored assignment, no summary,
\* nothing running.
InitPanel ==
    /\ \E n \in {0, MaxStudents - 1, MaxStudents} :
          students = studentsFrom(cyclic(n, Len(StudentProfiles)))
    /\ \E m \in 1..(MaxSoldiers - 1) :
          soldiers = soldiersFrom(cyclic(m, Len(SoldierProfiles)))
    /\ matchesBySoldier = <<>>
    /\ pc = "idle"
    /\ InitCall

\* The locals of a call that ended are unreachable.
dropLocals ==
    /\ matchesBySoldier' = <<>>
    /\ studentAssignments' = <<>>
    /\ soldiersWithOptions' = <<>>
    /\ si' = 1
    /\ result' = <<>>
    /\ unusedStudents' = <<>>
    /\ ui' = 1
    /\ output' = NoOutput

\* runMatching up to its await: the button that is disabled without students
\* or soldiers, the same test in the handler, setIsLoading(true), setTimeout.
ClickRun ==
    /\ pc = "idle"
    /\ clicks < MaxRuns
    /\ ~(Len(students) = 0 \/ Len(soldiers) = 0)
    /\ isLoading' = TRUE
    /\ pending' = pending + 1
    /\ clicks' = clicks + 1
    /\ UNCHANGED <<students, soldiers, pc, callVars, nextId, dynamicLanguageCodes, scIn, scOut, run,
                   prevOutput, matches, matchingSummary>>

\* The timeout of the oldest waiting runMatching elapses: it goes on to call
\* runSecureMatchingAlgorithm(students, soldiers).
TimerFires ==
    /\ pc = "idle"
    /\ pending > 0
    /\ pending' = pending - 1
    /\ pc' = "start"
    /\ UNCHANGED <<students, soldiers, callVars, nextId, dynamicLanguageCodes, scIn, scOut, run,
                   prevOutput, matches, matchingSummary, isLoading, clicks>>

\* Variant: the new assignments are appended to the stored ones.
CompleteRunMerging ==
    /\ pc = "done"
    /\ matches' = matches \o output.matches
    /\ matchingSummary' = output.summary
    /\ isLoading' = FALSE
    /\ pc' = "idle"
    /\ dropLocals
    /\ UNCHANGED <<students, soldiers, nextId, dynamicLanguageCodes, scIn, scOut, run, prevOutput,
                   pending, clicks>>

\* The call returned: setMatches(newMatches), setMatchingSummary(summary),
\* then finally setIsLoading(false).
CompleteRun ==
    /\ pc = "done"
    /\ matches' = output.matches
    /\ matchingSummary' = output.summary
    /\ isLoading' = FALSE
    /\ pc' = "idle"
    /\ dropLocals
    /\ UNCHANGED <<students, soldiers, nextId, dynamicLanguageCodes, scIn, scOut, run, prevOutput,
                   pending, clicks>>

\* Variant: the handler stores what the call had built when it threw and has
\* no finally block.
RunThrowsKeepingPartial ==
    /\ pc = "assign"
    /\ si <= Len(soldiersWithOptions)
    /\ matches' = result
    /\ pc' = "idle"
    /\ dropLocals
    /\ UNCHANGED <<students, soldiers, nextId, dynamicLanguageCodes, scIn, scOut, run, prevOutput,
                   matchingSummary, isLoading, pending, clicks>>

\* The call throws while it builds a record (crypto.randomUUID is missing
\* outside a secure context): catch logs and alerts, finally
\* setIsLoading(false).
RunThrows ==
    /\ pc = "assign"
    /\ si <= Len(soldiersWithOptions)
    /\ isLoading' = FALSE
    /\ pc' = "idle"
    /\ dropLocals
    /\ UNCHANGED <<students, soldiers, nextId, dynamicLanguageCodes, scIn, scOut, run, prevOutput,
                   matches, matchingSummary, pending, clicks>>

\* Variant: the status is written to every assignment of the soldier whose
\* assignment was clicked.
updateMatchStatusOfSoldier(matchId, status) ==
    /\ pc = "idle"
    /\ matches' =
           LET clicked == CHOOSE k \in 1..Len(matches) : matches[k].id = matchId
           IN  [k \in 1..Len(matches) |->
                   IF matches[k].soldier_external_id =
                          matches[clicked].soldier_external_id
                   THEN [matches[k] EXCEPT !.status = status]
                   ELSE matches[k]]
    /\ UNCHANGED <<students, soldiers, pc, callVars, nextId, dynamicLanguageCodes,
                   scIn, scOut, run, prevOutput, matchingSummary, isLoading,
                   pending, clicks>>

\* updateMatchStatus(matchId, status) from the buttons of a 'suggested' row.
updateMatchStatus(matchId, status) ==
    /\ pc = "idle"
    /\ matches' = [k \in 1..Len(matches) |->
                      IF matches[k].id = matchId
                      THEN [matches[k] EXCEPT !.status = status]
                      ELSE matches[k]]
    /\ UNCHANGED <<students, soldiers, pc, callVars, nextId, dynamicLanguageCodes, scIn, scOut, run,
                   prevOutput, matchingSummary, isLoading, pending, clicks>>

ClickStatus ==
    \E k \in 1..Len(matches) : \E status \in {"approved", "rejected"} :
        /\ matches[k].status = "suggested"
        /\ updateMatchStatus(matches[k].id, status)

NextPanel ==
    \/ ClickRun
    \/ TimerFires
    \/ Next
    \/ CompleteRun
    \/ RunThrows
    \/ ClickStatus

SpecPanel == InitPanel /\ [][NextPanel]_vars

(***************************************************************************)
(* Conversions for the cloud tables                                        *)
(***************************************************************************)

\* The fields that stay in the browser: <<full_name, phone, email,
\* full_address, coordinator, notes, special_requests, city>>.
PersonalProfiles ==
    << <<"Dana Levi", "050-1111111", "dana@example.org", "Herzl 1", "Ron",
         "prefers evenings", "kosher food", "Tel Aviv">>,
       <<"Avi Cohen", "052-2222222", "avi@example.org", "Hanasi 2", "Gal",
         NULL, "no calls on Saturday", "TEL AVIV - YAFO">>,
       <<NULL, NULL, NULL, NULL, NULL, NULL, NULL, NULL>> >>

\* A LocalStudent: the matching fields of core and the personal fields of p.
localStudent(core, p) ==
    [ contact_id |-> core.contact_id,
      full_name |-> p[1], phone |-> p[2], email |-> p[3], full_address |-> p[4],
      coordinator |-> p[5], notes |-> p[6],
      gender |-> core.gender, city |-> p[8], city_code |-> core.city_code,
      region |-> regionOf(core.city_code),
      mother_tongue_code |-> core.mother_tongue_code,
      current_soldiers_count |-> core.capacity.current_soldiers_count,
      is_scholarship_active |-> core.capacity.is_scholarship_active,
      max_soldiers |-> core.capacity.max_soldiers,
      available_slots |-> core.capacity.available_slots,
      volunteer_status |-> core.status ]

\* A LocalSoldier, likewise; has_special_requests is part of core.
localSoldier(core, p) ==
    [ contact_id |-> core.contact_id,
      full_name |-> p[1], phone |-> p[2], email |-> p[3], full_address |-> p[4],
      coordinator |-> p[5], notes |-> p[6], special_requests |-> p[7],
      gender |-> core.gender, city |-> p[8], city_code |-> core.city_code,
      region |-> regionOf(core.city_code),
      mother_tongue_code |-> core.mother_tongue_code,
      volunteer_gender_preference |-> core.volunteer_gender_preference,
      soldier_status |-> core.status,
      has_special_requests |-> core.has_special_requests ]

\* x || null
orNull(x) == IF x = NULL THEN NULL ELSE x

\* local.gender === 'zakhar' ? 'M' : local.gender === 'nekeva' ? 'F' : null
genderCodeOf(gender) ==
    IF gender = "zakhar" THEN "M" ELSE IF gender = "nekeva" THEN "F" ELSE NULL

\* Variant: a record without city code is uploaded with its city name.
toSecureStudentCityFallback(local) ==
    [ external_id |-> local.contact_id,
      gender |-> genderCodeOf(local.gender),
      city_code |-> IF local.city_code = NULL THEN orNull(local.city)
                    ELSE local.city_code,
      region |-> orNull(local.region),
      mother_tongue_code |-> orNull(local.mother_tongue_code),
      current_soldiers_count |-> local.current_soldiers_count,
      is_scholarship_active |-> local.is_scholarship_active,
      status |-> IF local.volunteer_status = "mamtin_leshibutz"
                 THEN "waiting" ELSE "inactive" ]

toSecureStudent(local) ==
    [ external_id |-> local.contact_id,
      gender |-> genderCodeOf(local.gender),
      city_code |-> orNull(local.city_code),
      region |-> orNull(local.region),
      mother_tongue_code |-> orNull(local.mother_tongue_code),
      current_soldiers_count |-> local.current_soldiers_count,
      is_scholarship_active |-> local.is_scholarship_active,
      status |-> IF local.volunteer_status = "mamtin_leshibutz"
                 THEN "waiting" ELSE "inactive" ]

toSecureSoldier(local) ==
    LET pref == local.volunteer_gender_preference
        genderPref ==
            IF pref = NULL THEN NULL
            ELSE IF pref = "mitnadev" THEN "male"
            ELSE IF pref = "mitnadevet" THEN "female"
            ELSE IF pref = "lo_hashuv" THEN "any"
            ELSE pref
    IN  [ external_id |-> local.contact_id,
          gender |-> genderCodeOf(local.gender),
          city_code |-> orNull(local.city_code),
          region |-> orNull(local.region),
          mother_tongue_code |-> orNull(local.mother_tongue_code),
          language_preference_code |-> orNull(local.mother_tongue_code),
          volunteer_gender_preference |-> genderPref,
          status |-> IF local.soldier_status = "mekhake_leshibutz"
                     THEN "waiting" ELSE "inactive",
          has_special_requests |-> local.has_special_requests ]

toSecureMatch(enriched) ==
    [ student_id |-> "",
      soldier_id |-> "",
      confidence_score |-> enriched.confidence_score,
      match_rank |-> enriched.match_rank,
      match_criteria |-> enriched.match_criteria,
      status |-> enriched.status ]

\* The conversion that the upload applies to a record of each kind.
toSecure(kind, local) ==
    IF kind = "student" THEN toSecureStudent(local)
    ELSE IF kind = "soldier" THEN toSecureSoldier(local)
    ELSE toSecureMatch(local)

studentCore(g, cc, code, cap, st) ==
    [ contact_id |-> 1, gender |-> g, city_code |-> cc, mother_tongue_code |-> code,
      capacity |-> capacityOf(cap[1], cap[2]), status |-> st ]

soldierCore(g, cc, code, pref, st, hsr) ==
    [ contact_id |-> 1, gender |-> g, city_code |-> cc, mother_tongue_code |-> code,
      volunteer_gender_preference |-> pref, status |-> st,
      has_special_requests |-> hsr ]

\* An EnrichedMatch of the two records, as optimizeSecureMatches builds it
\* and updateMatchStatus leaves it.
enrichedMatch(student, soldier, rank, status) ==
    LET scored == calculateSecureMatch(
                      mkStudent(student.contact_id, student.gender,
                                student.city_code, student.mother_tongue_code),
                      mkSoldier(soldier.contact_id,
                                soldier.volunteer_gender_preference,
                                soldier.city_code, soldier.mother_tongue_code))
    IN  [ id |-> 1,
          student_external_id |-> student.contact_id,
          soldier_external_id |-> soldier.contact_id,
          confidence_score |-> scored.score,
          match_rank |-> rank,
          match_criteria |-> scored.criteria,
          status |-> status,
          student |-> student,
          soldier |-> soldier ]

\* Two local records of one kind, a and b, with the same matching fields and
\* different personal fields.
InitSecure ==
    /\ \E p \in 1..Len(PersonalProfiles), q \in 1..Len(PersonalProfiles) :
       \E g \in {"zakhar", "nekeva", NULL}, cc \in {NULL, "TLV", "HFA"},
          code \in {NULL, "HE"} :
          /\ p # q
          /\ \/ \E cap \in {CapacityProfiles[k] : k \in 1..Len(CapacityProfiles)},
                   st \in {"mamtin_leshibutz", "pail", NULL} :
                   LET core == studentCore(g, cc, code, cap, st)
                   IN  scIn = [ kind |-> "student",
                                a |-> localStudent(core, PersonalProfiles[p]),
                                b |-> localStudent(core, PersonalProfiles[q]) ]
             \/ \E pref \in {NULL, "mitnadev", "lo_hashuv", "female"},
                   st \in {"mekhake_leshibutz", NULL}, hsr \in BOOLEAN :
                   LET core == soldierCore(g, cc, code, pref, st, hsr)
                   IN  scIn = [ kind |-> "soldier",
                                a |-> localSoldier(core, PersonalProfiles[p]),
                                b |-> localSoldier(core, PersonalProfiles[q]) ]
             \/ \E rank \in 1..2, status \in {"suggested", "approved", "rejected"} :
                   LET student == studentCore(g, cc, code, CapacityProfiles[1],
                                              "mamtin_leshibutz")
                       soldier == soldierCore("zakhar", "TLV", "HE", "mitnadevet",
                                              "mekhake_leshibutz", TRUE)
                   IN  scIn = [ kind |-> "match",
                                a |-> enrichedMatch(
                                        localStudent(student, PersonalProfiles[p]),
                                        localSoldier(soldier, PersonalProfiles[q]),
                                        rank, status),
                                b |-> enrichedMatch(
                                        localStudent(student, PersonalProfiles[q]),
                                        localSoldier(soldier, PersonalProfiles[p]),
                                        rank, status) ]
    /\ scOut = NULL
    /\ pc = "convert"
    /\ students = <<>>
    /\ soldiers = <<>>
    /\ matchesBySoldier = <<>>
    /\ studentAssignments = <<>>
    /\ soldiersWithOptions = <<>>
    /\ si = 1
    /\ result = <<>>
    /\ unusedStudents = <<>>
    /\ ui = 1
    /\ nextId = 0
    /\ output = NoOutput
    /\ run = 1
    /\ prevOutput = NoOutput
    /\ matches = <<>>
    /\ matchingSummary = NULL
    /\ isLoading = FALSE
    /\ pending = 0
    /\ clicks = 0
    /\ dynamicLanguageCodes = <<>>

\* Both records are converted for upload.
Convert ==
    /\ pc = "convert"
    /\ scOut' = [ a |-> toSecure(scIn.kind, scIn.a),
                  b |-> toSecure(scIn.kind, scIn.b) ]
    /\ pc' = "converted"
    /\ UNCHANGED <<students, soldiers, callVars, nextId, dynamicLanguageCodes, scIn, run, prevOutput,
                   panelVars>>

NextSecure == Convert

SpecSecure == InitSecure /\ [][NextSecure]_vars

(***************************************************************************)
(* Language codes (getLanguageCode)                                        *)
(***************************************************************************)

\* Number of getLanguageCode calls in a row.
MaxCalls == 4

\* A language name is a sequence of characters over letters, blank and ';'.
\* "r", "u", "k" stand for the letters of the source's alphabet classes.
Letters == {"r", "u", "k"}

\* c.toUpperCase()
toUpperCase(c) == IF c = "r" THEN "R" ELSE IF c = "u" THEN "U" ELSE "K"

\* One predefined name, <<"r", "u">>, stands for the entries of LANGUAGE_CODES.
LANGUAGE_CODES == [name \in {<<"r", "u">>} |-> "RU"]

\* s.trim()
RECURSIVE trimStart(_)
trimStart(s) == IF s # <<>> /\ Head(s) = " " THEN trimStart(Tail(s)) ELSE s

RECURSIVE trimEnd(_)
trimEnd(s) ==
    IF s # <<>> /\ s[Len(s)] = " " THEN trimEnd(SubSeq(s, 1, Len(s) - 1)) ELSE s

trim(s) == trimEnd(trimStart(s))

\* s.split(one character of seps): the parts, empty ones included; cur is the
\* part being read.
RECURSIVE splitAt(_, _, _)
splitAt(s, seps, cur) ==
    IF s = <<>> THEN <<cur>>
    ELSE IF Head(s) \in seps THEN <<cur>> \o splitAt(Tail(s), seps, <<>>)
    ELSE splitAt(Tail(s), seps, Append(cur, Head(s)))

\* trimmed.split(/\s+/): a run of blanks separates once, so the parts of a
\* trimmed string are its non-empty pieces (only their number above 1 and the
\* pieces are used).
splitBlanks(trimmed) ==
    SelectSeq(splitAt(trimmed, {" "}, <<>>), LAMBDA part : part # <<>>)

\* hebrewName.replace(/[^letters]/g, '')
clean(s) == SelectSeq(s, LAMBDA c : c \in Letters)

generateLanguageCode(hebrewName) ==
    LET cl == clean(hebrewName)
    IN  IF Len(cl) >= 2 THEN toUpperCase(cl[1]) \o toUpperCase(cl[2])
        ELSE IF Len(cl) = 1 THEN toUpperCase(cl[1])
        ELSE "XX"

\* The code of the first part that is predefined or was minted before, or NULL.
RECURSIVE firstKnown(_, _, _)
firstKnown(parts, dyn, i) ==
    IF i > Len(parts) THEN NULL
    ELSE IF parts[i] \in DOMAIN LANGUAGE_CODES THEN LANGUAGE_CODES[parts[i]]
    ELSE IF parts[i] \in DOMAIN dyn THEN dyn[parts[i]]
    ELSE firstKnown(parts, dyn, i + 1)

\* getLanguageCode(hebrewName) with dynamicLanguageCodes = dyn: the code
\* returned and the map afterwards.
getLanguageCode(hebrewName, dyn) ==
    IF hebrewName = <<>> THEN [code |-> NULL, dyn |-> dyn]
    ELSE
    LET trimmed == trim(hebrewName)
        parts == splitBlanks(trimmed)
        semiParts == splitAt(trimmed, {";", ","}, <<>>)
        first == trim(semiParts[1])
        byPart == IF Len(parts) > 1 THEN firstKnown(parts, dyn, 1) ELSE NULL
        autoCode == generateLanguageCode(trimmed)
    IN  IF trimmed \in DOMAIN LANGUAGE_CODES
        THEN [code |-> LANGUAGE_CODES[trimmed], dyn |-> dyn]
        ELSE IF trimmed \in DOMAIN dyn
        THEN [code |-> dyn[trimmed], dyn |-> dyn]
        ELSE IF byPart # NULL
        THEN [code |-> byPart, dyn |-> dyn]
        ELSE IF Len(semiParts) > 1 /\ first \in DOMAIN LANGUAGE_CODES
        THEN [code |-> LANGUAGE_CODES[first], dyn |-> dyn]
        ELSE IF Len(semiParts) > 1 /\ first \in DOMAIN dyn
        THEN [code |-> dyn[first], dyn |-> dyn]
        ELSE [code |-> autoCode,
              dyn |-> [k \in DOMAIN dyn \cup {trimmed} |->
                          IF k = trimmed THEN autoCode ELSE dyn[k]]]

\* The mother-tongue cells the parser passes: predefined, unknown, padded,
\* several languages in one cell, unknown names that begin alike or begin as
\* a predefined name does, no letter at all, empty.
LanguageNames ==
    { <<"r", "u">>, <<"k">>, <<"u">>, <<"k", " ", "u">>, <<"u", " ", "k">>,
      <<"k", ";", "u">>, <<" ", "k">>, <<"k", "u", "k">>,
      <<"r", "u", " ", "k">>, <<"k", "u">>, <<"r", "u", "k">>,
      <<";">>, <<" ">>, <<>> }

\* The module is loaded: no minted code; scOut logs for each name the code
\* the latest call with it returned.
InitLang ==
    /\ dynamicLanguageCodes = <<>>
    /\ scIn = NoScore
    /\ scOut = <<>>
    /\ run = 1
    /\ pc = "codes"
    /\ students = <<>>
    /\ soldiers = <<>>
    /\ matchesBySoldier = <<>>
    /\ studentAssignments = <<>>
    /\ soldiersWithOptions = <<>>
    /\ si = 1
    /\ result = <<>>
    /\ unusedStudents = <<>>
    /\ ui = 1
    /\ nextId = 0
    /\ output = NoOutput
    /\ prevOutput = NoOutput
    /\ matches = <<>>
    /\ matchingSummary = NULL
    /\ isLoading = FALSE
    /\ pending = 0
    /\ clicks = 0

\* One call getLanguageCode(hebrewName).
ResolveLanguage ==
    /\ pc = "codes"
    /\ run <= MaxCalls
    /\ \E hebrewName \in LanguageNames :
          LET r == getLanguageCode(hebrewName, dynamicLanguageCodes)
          IN  /\ dynamicLanguageCodes' = r.dyn
              /\ scOut' = [k \in DOMAIN scOut \cup {hebrewName} |->
                              IF k = hebrewName THEN r.code ELSE scOut[k]]
    /\ run' = run + 1
    /\ UNCHANGED <<students, soldiers, pc, callVars, nextId, scIn, prevOutput,
                   panelVars>>

NextLang == ResolveLanguage

SpecLang == InitLang /\ [][NextLang]_vars

(***************************************************************************)
(* Properties                                                              *)
(***************************************************************************)

\* Number of assignments of a soldier in a list.
assignmentsOf(res, soldierId) ==
    Cardinality({i \in 1..Len(res) : res[i].soldier_external_id = soldierId})

\* Distinct student ids of a candidate list.
candidateStudents(candidates) ==
    {candidates[i].student : i \in 1..Len(candidates)}

\* The final pass has replaced at least one assignment.
swapHappened == nextId > Len(result)

\* C1: when optimizeSecureMatches has returned, every soldier key of the
\* candidate map has exactly min(2, number of distinct candidate students)
\* assignments: 2, 1 or 0.
C1_TwoPerSoldier ==
    pc = "returned" =>
        \A e \in 1..Len(matchesBySoldier) :
            assignmentsOf(result, matchesBySoldier[e].soldierId) =
                Min(2, Cardinality(candidateStudents(matchesBySoldier[e].candidates)))

\* A returned call in which the final pass swapped, one soldier had a single
\* candidate student and another had several.
C1_Witness ==
    /\ pc = "returned"
    /\ swapHappened
    /\ \E e \in 1..Len(matchesBySoldier) :
          Cardinality(candidateStudents(matchesBySoldier[e].candidates)) = 1
    /\ \E e \in 1..Len(matchesBySoldier) :
          Cardinality(candidateStudents(matchesBySoldier[e].candidates)) >= 2

noDuplicatePair(res) ==
    \A i, k \in 1..Len(res) :
        (/\ res[i].student_external_id = res[k].student_external_id
         /\ res[i].soldier_external_id = res[k].soldier_external_id) => i = k

\* C3: at every point of an allocation and in the returned list, no
\* (student, soldier) pair occurs twice.
C3_NoDuplicatePair == noDuplicatePair(result)

\* A returned call whose candidate lists held every student twice and whose
\* final pass swapped.
C3_Witness ==
    /\ pc = "returned"
    /\ swapHappened
    /\ \E e \in 1..Len(matchesBySoldier) :
          Len(matchesBySoldier[e].candidates) >
              Cardinality(candidateStudents(matchesBySoldier[e].candidates))

\* C4: every assignment has rank 1 or 2, a soldier has at most one of each,
\* and a rank-2 assignment comes with a rank-1 assignment of the same soldier
\* that was created earlier.
C4_RankOrder ==
    /\ \A i \in 1..Len(result) : result[i].match_rank \in {1, 2}
    /\ \A i, k \in 1..Len(result) :
          (/\ result[i].soldier_external_id = result[k].soldier_external_id
           /\ result[i].match_rank = result[k].match_rank) => i = k
    /\ \A i \in 1..Len(result) :
          result[i].match_rank = 2 =>
              \E k \in 1..Len(result) :
                  /\ result[k].soldier_external_id = result[i].soldier_external_id
                  /\ result[k].match_rank = 1
                  /\ result[k].id < result[i].id

\* A returned call with a soldier holding rank 1 and rank 2, after a swap.
C4_Witness ==
    /\ pc = "returned"
    /\ swapHappened
    /\ \E i \in 1..Len(result) : result[i].match_rank = 2

baseOf(genderMatch, languageMatch) ==
    IF genderMatch /\ languageMatch THEN 100
    ELSE IF languageMatch THEN 70
    ELSE IF genderMatch THEN 60
    ELSE 30

C7_Rank1Untouched ==
    [][pc = "finalpass" =>
        /\ Len(result') = Len(result)
        /\ \A i \in 1..Len(result) :
              /\ result[i].match_rank = 1 => result'[i] = result[i]
              /\ result'[i] # result[i] => result'[i].match_rank = 2]_vars

\* The final pass has just swapped while rank-1 assignments exist.
C7_Witness ==
    /\ pc = "finalpass"
    /\ swapHappened
    /\ \E i \in 1..Len(result) : result[i].match_rank = 1

\* Position of a soldier in the processing order.
positionOf(soldierId) ==
    CHOOSE q \in 1..Len(soldiersWithOptions) :
        soldiersWithOptions[q] = soldierId

\* C8: soldiers are processed in non-decreasing order of candidate-list
\* length: a soldier with strictly fewer candidates is processed, and
\* all its first-pass assignments are created, before any of a soldier with
\* more; a soldier with a single candidate receives that student as rank 1.
C8_FewestOptionsFirst ==
    pc \in {"assign", "finalpass", "returned"} =>
        /\ \A a, b \in 1..Len(matchesBySoldier) :
              Len(matchesBySoldier[a].candidates) < Len(matchesBySoldier[b].candidates) =>
                  LET ida == matchesBySoldier[a].soldierId
                      idb == matchesBySoldier[b].soldierId
                  IN  /\ positionOf(ida) < positionOf(idb)
                      /\ positionOf(idb) < si => positionOf(ida) < si
                      /\ pc = "assign" =>
                            \A i, k \in 1..Len(result) :
                                (/\ result[i].soldier_external_id = ida
                                 /\ result[k].soldier_external_id = idb)
                                    => result[i].id < result[k].id
        /\ \A a \in 1..Len(matchesBySoldier) :
              (/\ Len(matchesBySoldier[a].candidates) = 1
               /\ positionOf(matchesBySoldier[a].soldierId) < si) =>
                  \E i \in 1..Len(result) :
                      /\ result[i].soldier_external_id = matchesBySoldier[a].soldierId
                      /\ result[i].student_external_id =
                             matchesBySoldier[a].candidates[1].student
                      /\ result[i].match_rank = 1

\* A returned call where a soldier with one candidate sits after a soldier
\* with MaxStudents candidates in the map and both have the same top candidate.
C8_Witness ==
    /\ pc = "returned"
    /\ \E a, b \in 1..Len(matchesBySoldier) :
          /\ b < a
          /\ Len(matchesBySoldier[a].candidates) = 1
          /\ Len(matchesBySoldier[b].candidates) = MaxStudents
          /\ matchesBySoldier[a].candidates[1].student =
                 matchesBySoldier[b].candidates[1].student

\* C9: the summary's soldier counts add up to totalSoldiers, its student
\* counts to totalStudents, all five are non-negative and studentsUsed is the
\* number of distinct students in the returned assignments.
C9_SummaryConsistent ==
    pc = "done" =>
        LET sm == output.summary
        IN  /\ sm.soldiersWithTwoMatches + sm.soldiersWithOneMatch
                   + sm.soldiersWithNoMatch = sm.totalSoldiers
            /\ sm.studentsUsed + sm.studentsNotUsed = sm.totalStudents
            /\ sm.soldiersWithTwoMatches >= 0
            /\ sm.soldiersWithOneMatch >= 0
            /\ sm.soldiersWithNoMatch >= 0
            /\ sm.studentsUsed >= 0
            /\ sm.studentsNotUsed >= 0
            /\ sm.totalSoldiers = Len(soldiers)
            /\ sm.totalStudents = Len(students)
            /\ sm.studentsUsed =
                   Cardinality({output.matches[i].student_external_id :
                                    i \in 1..Len(output.matches)})

\* A finished run with soldiers holding two matches, soldiers holding one,
\* and a student left unused.
C9_Witness ==
    /\ pc = "done"
    /\ output.summary.soldiersWithTwoMatches >= 1
    /\ output.summary.studentsNotUsed >= 1
    /\ output.summary.studentsUsed >= 2

\* The run has no students or no soldiers.
emptyInput == Len(students) = 0 \/ Len(soldiers) = 0

\* C10 as stated: with zero students or zero soldiers the assignment list is
\* empty and every count of the summary is zero.
C10_AllCountsZero ==
    (pc = "done" /\ emptyInput) =>
        LET sm == output.summary
        IN  /\ output.matches = <<>>
            /\ sm.totalStudents = 0
            /\ sm.totalSoldiers = 0
            /\ sm.totalMatches = 0
            /\ sm.soldiersWithTwoMatches = 0
            /\ sm.soldiersWithOneMatch = 0
            /\ sm.soldiersWithNoMatch = 0
            /\ sm.studentsUsed = 0
            /\ sm.studentsNotUsed = 0
            /\ sm.avgScore = 0
            /\ sm.highScoreMatches = 0
            /\ sm.mediumScoreMatches = 0
            /\ sm.lowScoreMatches = 0

\* C10 amended: with zero students or zero soldiers the run finishes with an
\* empty assignment list and every count derived from the assignments zero,
\* while totalStudents and totalSoldiers are the input sizes, every soldier
\* counts as unmatched and every student as unused.
C10_EmptyInputSummary ==
    (pc = "done" /\ emptyInput) =>
        LET sm == output.summary
        IN  /\ output.matches = <<>>
            /\ sm.totalMatches = 0
            /\ sm.soldiersWithTwoMatches = 0
            /\ sm.soldiersWithOneMatch = 0
            /\ sm.studentsUsed = 0
            /\ sm.avgScore = 0
            /\ sm.highScoreMatches = 0
            /\ sm.mediumScoreMatches = 0
            /\ sm.lowScoreMatches = 0
            /\ sm.totalStudents = Len(students)
            /\ sm.totalSoldiers = Len(soldiers)
            /\ sm.soldiersWithNoMatch = Len(soldiers)
            /\ sm.studentsNotUsed = Len(students)

\* A finished run without students and with several soldiers.
C10_Witness ==
    /\ pc = "done"
    /\ Len(students) = 0
    /\ Len(soldiers) >= 2

\* An assignment without its random id.
withoutId(m) ==
    [ student_external_id |-> m.student_external_id,
      soldier_external_id |-> m.soldier_external_id,
      confidence_score    |-> m.confidence_score,
      match_rank          |-> m.match_rank,
      match_criteria      |-> m.match_criteria,
      status              |-> m.status ]

\* C11: the second of two runs on identical input returns the assignments
\* (all but the id) and the summary of the first; the counters the first run
\* left behind have no effect.
C11_SecondRunSame ==
    (run = 2 /\ pc = "done") =>
        /\ Len(output.matches) = Len(prevOutput.matches)
        /\ \A i \in 1..Len(output.matches) :
              withoutId(output.matches[i]) = withoutId(prevOutput.matches[i])
        /\ output.summary = prevOutput.summary

\* A finished second run whose first run left unequal counters behind and
\* whose soldiers got rank 1 and rank 2.
C11_Witness ==
    /\ run = 2
    /\ pc = "done"
    /\ Len(students) >= 2
    /\ \E i \in 1..Len(prevOutput.matches) : prevOutput.matches[i].match_rank = 2
    /\ prevOutput.summary.studentsNotUsed >= 1

\* Student, soldier, rank and score of an assignment.
pairing(m) ==
    << m.student_external_id, m.soldier_external_id, m.match_rank,
       m.confidence_score >>

\* Number of rank-1 assignments a student holds in a list.
rank1Held(ms, studentId) ==
    Cardinality({i \in 1..Len(ms) :
        ms[i].student_external_id = studentId /\ ms[i].match_rank = 1})

idsOf(ms) == {ms[k].id : k \in 1..Len(ms)}

\* C13: when a run started from MatchesPanel completes, the stored assignments
\* are exactly what the run returned: every one has status 'suggested' and no
\* record stored before the run (suggested, approved or rejected) remains; the
\* stored summary is the run's summary.
C13_RunReplacesStored ==
    [][(pc = "done" /\ pc' = "idle") =>
          /\ matches' = output.matches
          /\ matchingSummary' = output.summary
          /\ \A k \in 1..Len(matches') : matches'[k].status = "suggested"
          /\ idsOf(matches') \cap idsOf(matches) = {}]_vars

\* A second run has returned while the stored assignments of the first hold
\* an approval and a rejection.
C13_Witness ==
    /\ pc = "done"
    /\ Len(output.matches) > 0
    /\ \E k \in 1..Len(matches) : matches[k].status = "approved"
    /\ \E k \in 1..Len(matches) : matches[k].status = "rejected"

\* C14: a run that throws inside runMatching leaves the stored assignments
\* and the stored summary as they were when the call began, nothing of the
\* partial result is stored, and runMatching ends with the loading flag false
\* whether the call returned or threw.
C14_AtomicRun ==
    [][/\ (pc \notin {"idle", "done"} =>
              matches' = matches /\ matchingSummary' = matchingSummary)
       /\ (pc # "idle" /\ pc' = "idle" => isLoading' = FALSE)]_vars

\* The second run threw after it had built records: the stored assignments
\* are still those of the first run, one of them approved.
C14_Witness ==
    /\ pc = "idle"
    /\ clicks >= 2
    /\ pending = 0
    /\ ~isLoading
    /\ Len(matches) > 0
    /\ \E k \in 1..Len(matches) : matches[k].status = "approved"
    /\ \A k \in 1..Len(matches) : matches[k].id <= Len(matches)
    /\ nextId > Len(matches)

\* The runMatching calls between setIsLoading(true) and setIsLoading(false).
inFlight == pending + (IF pc = "idle" THEN 0 ELSE 1)

\* C15: at most one matching run is in flight: while a run started by
\* runMatching is pending, the 100 ms wait included, no second run starts.
C15_OneRunInFlight == inFlight <= 1

\* C16: toSecureStudent, toSecureSoldier and toSecureMatch give the same cloud
\* record for two local records that differ only in full_name, phone, email,
\* full_address, coordinator, notes, special_requests text or city name.
C16_NoPersonalData ==
    pc = "converted" => scOut.a = scOut.b

\* Two soldiers with different names, special requests and city names have
\* been converted.
C16_Witness ==
    /\ pc = "converted"
    /\ scIn.kind = "soldier"
    /\ scIn.a.full_name # scIn.b.full_name
    /\ scIn.a.special_requests # scIn.b.special_requests
    /\ scIn.a.city # scIn.b.city
    /\ scIn.a.city_code = NULL
    /\ scOut.a.has_special_requests

\* C17: in any sequence of getLanguageCode calls a non-empty name resolves to
\* a non-null code, and a name that has resolved to a code resolves to the
\* same code in every later call, whatever was resolved in between, so that
\* two records with the same unknown name count as a language match.
C17_StableCode ==
    [][\A name \in DOMAIN scOut :
          /\ scOut'[name] = scOut[name]
          /\ (name # <<>> => scOut[name] # NULL /\ scOut'[name] # NULL)
          /\ (name # <<>> => checkLanguageMatch(scOut[name], scOut'[name]))]_vars

\* Candidate c comes before every candidate of pool in the order of the
\* re-sort: fewer assignments so far, then higher score.
leads(counts, cands, c, pool) ==
    \A d \in pool :
        \/ countOf(counts, cands[c].student) < countOf(counts, cands[d].student)
        \/ /\ countOf(counts, cands[c].student) = countOf(counts, cands[d].student)
           /\ cands[c].score >= cands[d].score

\* C18: the student a soldier receives as rank 1 has the smallest live count
\* among the soldier's candidates (counts as they are when the soldier is
\* processed) and the highest score among those; rank 2 is the next candidate
\* in that order with another student id. With equal counts rank 1 is the
\* highest-scoring candidate and rank 2 the best remaining one.
C18_LeastLoadedThenBestScore ==
    [][(pc = "assign" /\ si <= Len(soldiersWithOptions)) =>
        LET cands == candidatesFor(matchesBySoldier, soldiersWithOptions[si])
            all == 1..Len(cands)
            n == Len(result)
            takes(rec, c) == /\ cands[c].student = rec.student_external_id
                             /\ cands[c].score = rec.confidence_score
        IN  IF all = {} THEN result' = result
            ELSE /\ Len(result') > n
                 /\ result'[n + 1].match_rank = 1
                 /\ \E c \in all : /\ takes(result'[n + 1], c)
                                   /\ leads(studentAssignments, cands, c, all)
                 /\ LET others == {d \in all :
                           cands[d].student # result'[n + 1].student_external_id}
                    IN  IF others = {} THEN Len(result') = n + 1
                        ELSE /\ Len(result') = n + 2
                             /\ result'[n + 2].match_rank = 2
                             /\ \E c \in others :
                                   /\ takes(result'[n + 2], c)
                                   /\ leads(studentAssignments, cands, c, others)]_vars

\* A soldier has been given as rank 1 a student that is not its best-scoring
\* candidate, and as rank 2 a better-scoring one.
C18_Witness ==
    /\ pc = "assign"
    /\ \E i \in 1..Len(result) : \E k \in 1..Len(result) :
          /\ result[i].soldier_external_id = result[k].soldier_external_id
          /\ result[i].match_rank = 1
          /\ result[k].match_rank = 2
          /\ result[k].confidence_score > result[i].confidence_score

\* The students that receive a rank-1 assignment in this step of the loop
\* over the soldiers.
rank1Receivers ==
    {result'[i].student_external_id :
        i \in {k \in (Len(result) + 1)..Len(result') : result'[k].match_rank = 1}}

\* The students written into a slot in this step of the final pass.
swappedIn ==
    {result'[i].student_external_id :
        i \in {k \in 1..Len(result) : result'[k] # result[k]}}

studentIds == {students[i].contact_id : i \in 1..Len(students)}

\* C19 as stated: a counter changes only by an increment of one for a student
\* that receives a rank-1 assignment in the same step; a rank-2 assignment, in
\* the per-soldier pass or in the rebalancing pass, changes no counter.
C19_OnlyRank1Increments ==
    [][\A id \in studentIds :
          countOf(studentAssignments', id) # countOf(studentAssignments, id) =>
              /\ pc = "assign"
              /\ id \in rank1Receivers
              /\ countOf(studentAssignments', id) =
                     countOf(studentAssignments, id) + 1]_vars

\* C19 amended: in the per-soldier pass a counter is incremented, by one,
\* exactly for the student that receives the rank-1 assignment, and a rank-2
\* assignment changes no counter; in the rebalancing pass a swap increments
\* the counter of the student swapped into the rank-2 slot by one and changes
\* no other counter (the replaced holder's is not decremented).
C19_CounterUpdates ==
    [][\A id \in studentIds :
          countOf(studentAssignments', id) =
              countOf(studentAssignments, id) +
                  (IF \/ pc = "assign" /\ si <= Len(soldiersWithOptions)
                            /\ id \in rank1Receivers
                      \/ pc = "finalpass" /\ id \in swappedIn
                   THEN 1 ELSE 0)]_vars

\* The final pass has swapped in a student: its counter is 1 although it holds
\* no rank-1 assignment, while a soldier's rank-2 student kept count 0 in the
\* per-soldier pass.
C19_Witness ==
    /\ pc = "finalpass"
    /\ swapHappened
    /\ \E id \in studentIds :
          /\ countOf(studentAssignments, id) = 1
          /\ \A i \in 1..Len(result) :
                result[i].student_external_id = id => result[i].match_rank = 2
          /\ \E i \in 1..Len(result) : result[i].student_external_id = id

\* The rank-2 slots of the assignment list.
rank2Slots == {i \in 1..Len(result) : result[i].match_rank = 2}

holderCount(i) == countOf(studentAssignments, result[i].student_external_id)

\* C20: for an unused student the final pass replaces, when some rank-2 holder
\* has a live count above 1, a rank-2 assignment whose holder has the largest
\* live count of all rank-2 holders, by an assignment of the unused student to
\* the same soldier with rank 2 and the score of calculateSecureMatch for the
\* pair; when no rank-2 holder has a count above 1 the list stays as it is.
C20_SwapMostLoaded ==
    [][(pc = "finalpass" /\ ui <= Len(unusedStudents)) =>
        IF \E i \in rank2Slots : holderCount(i) > 1
        THEN \E k \in rank2Slots :
                /\ \A i \in rank2Slots : holderCount(i) <= holderCount(k)
                /\ \A i \in 1..Len(result) : i # k => result'[i] = result[i]
                /\ Len(result') = Len(result)
                /\ result'[k].student_external_id = unusedStudents[ui].contact_id
                /\ result'[k].soldier_external_id = result[k].soldier_external_id
                /\ result'[k].match_rank = 2
                /\ result'[k].confidence_score =
                       calculateSecureMatch(
                           unusedStudents[ui],
                           recordOf(soldiers, result[k].soldier_external_id)).score
        ELSE result' = result]_vars

\* A swap has happened, and a rank-2 slot whose holder has a live count of at
\* most 1 was passed over: it still holds its first-pass record.
C20_Witness ==
    /\ pc = "finalpass"
    /\ swapHappened
    /\ ui > 1
    /\ \E i \in rank2Slots : result[i].id <= Len(result) /\ holderCount(i) <= 1
    /\ \E k \in rank2Slots : result[k].id > Len(result)

preferredGender(soldierPref) ==
    IF soldierPref \in {"male", "mitnadev"} THEN "M"
    ELSE IF soldierPref \in {"female", "mitnadevet"} THEN "F"
    ELSE NULL

genderOf(studentGender) ==
    IF studentGender \in {"zakhar", "M"} THEN "M"
    ELSE IF studentGender \in {"nekeva", "F"} THEN "F"
    ELSE NULL

\* C22: checkGenderMatch is true when the soldier has no preference or 'any',
\* whatever the student's gender; with a specific preference it is true
\* exactly when the student's gender is the preferred one, and false when the
\* student's gender is unknown.
C22_GenderMatch ==
    pc = "scored" =>
        LET soldierPref == scIn.soldier.volunteer_gender_preference
            studentGender == scIn.student.gender
            matched == scOut.criteria.gender_pref_match
        IN  IF soldierPref \in {NULL, "any", "lo_hashuv"} THEN matched
            ELSE /\ matched <=> (/\ genderOf(studentGender) # NULL
                                 /\ genderOf(studentGender) =
                                        preferredGender(soldierPref))
                 /\ studentGender = NULL => ~matched

\* A student of unknown gender was scored for a soldier who asks for a woman.
C22_Witness ==
    /\ pc = "scored"
    /\ scIn.student.gender = NULL
    /\ scIn.soldier.volunteer_gender_preference = "mitnadevet"
    /\ ~scOut.criteria.gender_pref_match

\* C23: checkLanguageMatch is false when either code is missing; otherwise
\* true exactly when the codes are equal or in the same family (Slavic,
\* Romance, Semitic, Germanic); swapping the arguments gives the same result.
C23_LanguageMatch ==
    pc = "scored" =>
        LET a == scIn.student.mother_tongue_code
            b == scIn.soldier.mother_tongue_code
            matched == scOut.criteria.language_match
            family(c) ==
                IF c \in {"RU", "UK", "BG", "HR", "PL"} THEN "slavic"
                ELSE IF c \in {"FR", "ES", "IT", "PT", "RO"} THEN "romance"
                ELSE IF c \in {"HE", "AR"} THEN "semitic"
                ELSE IF c \in {"DE", "NL", "DA"} THEN "germanic"
                ELSE c
        IN  /\ (a = NULL \/ b = NULL) => ~matched
            /\ (a # NULL /\ b # NULL) => (matched <=> family(a) = family(b))
            /\ matched = checkLanguageMatch(b, a)

\* A Bulgarian-speaking student was scored for a Polish-speaking soldier.
C23_Witness ==
    /\ pc = "scored"
    /\ scIn.student.mother_tongue_code = "BG"
    /\ scIn.soldier.mother_tongue_code = "PL"
    /\ scOut.criteria.language_match

\* C24: getDistanceScore is 50 when a city cannot be resolved; for a distance
\* of x km it is 100 up to 10, 90 up to 30, 80 up to 50, 60 up to 75, 40 up to
\* 100, 20 up to 150 and 0 beyond; a longer distance never scores higher.
C24_DistanceScore ==
    pc = "scored" =>
        LET city1 == scIn.student.city
            city2 == scIn.soldier.city
            x == getCityDistance(city1, city2)
            score == scOut.criteria.distance_score
        IN  IF city1 \notin Cities \/ city2 \notin Cities THEN score = 50
            ELSE /\ x <= 10 => score = 100
                 /\ (10 < x /\ x <= 30) => score = 90
                 /\ (30 < x /\ x <= 50) => score = 80
                 /\ (50 < x /\ x <= 75) => score = 60
                 /\ (75 < x /\ x <= 100) => score = 40
                 /\ (100 < x /\ x <= 150) => score = 20
                 /\ x > 150 => score = 0
                 /\ \A c1 \in Cities, c2 \in Cities :
                       getCityDistance(c1, c2) >= x =>
                           getDistanceScore(c1, c2) <= score

\* A pair of cities 116 km apart was scored 20.
C24_Witness ==
    /\ pc = "scored"
    /\ scIn.student.city = "JLM"
    /\ scIn.soldier.city = "HFA"
    /\ scOut.criteria.distance_score = 20

rank1Count(res, studentId) ==
    Cardinality({i \in 1..Len(res) :
        res[i].match_rank = 1 /\ res[i].student_external_id = studentId})

\* C27: in runSecureMatchingAlgorithm with unique ids the final pass never
\* swaps: when a student is left without assignment no student has a live
\* count above 1, and the assignments returned by optimizeSecureMatches are
\* those of the per-soldier pass.
C27_NoSwapOnFullMap ==
    [][pc = "finalpass" =>
          /\ result' = result
          /\ Len(unusedStudents) > 0 =>
                \A id \in studentIds : countOf(studentAssignments, id) <= 1]_vars

\* The final pass has gone through a student without assignment while the
\* list holds a rank-2 assignment, and has left the list as it was.
C27_Witness ==
    /\ pc = "finalpass"
    /\ ui > 1
    /\ ~swapHappened
    /\ \E i \in 1..Len(result) : result[i].match_rank = 2

\* C28: in runSecureMatchingAlgorithm with unique ids, after each soldier the
\* numbers of rank-1 assignments of any two students differ by at most 1; with
\* at least as many soldiers as students every student ends with a rank-1
\* assignment and studentsNotUsed is 0.
C28_BalancedRank1 ==
    /\ pc \in {"assign", "finalpass", "returned", "done"} =>
          \A a \in studentIds : \A b \in studentIds :
              /\ rank1Count(result, a) - rank1Count(result, b) <= 1
              /\ countOf(studentAssignments, a) = rank1Count(result, a)
    /\ (pc = "done" /\ Len(soldiers) >= Len(students)) =>
          /\ \A a \in studentIds : rank1Count(output.matches, a) >= 1
          /\ output.summary.studentsNotUsed = 0

\* A run with MaxStudents students and as many soldiers has returned.
C28_Witness ==
    /\ pc = "done"
    /\ Len(students) = MaxStudents
    /\ Len(soldiers) = Len(students)
    /\ \A a \in studentIds : rank1Count(output.matches, a) = 1

\* The students that appear in an assignment list.
studentsIn(res) == {res[i].student_external_id : i \in 1..Len(res)}

predefinedCodes == {LANGUAGE_CODES[name] : name \in DOMAIN LANGUAGE_CODES}

\* The names resolved so far that are not empty and, trimmed, absent from
\* LANGUAGE_CODES.
unknownNames ==
    {name \in DOMAIN scOut : name # <<>> /\ trim(name) \notin DOMAIN LANGUAGE_CODES}

\* C30: after any sequence of getLanguageCode calls, two different names that
\* are both absent from LANGUAGE_CODES have different codes, which
\* checkLanguageMatch does not count as a match, and the code of a name that
\* was minted is not a code of the predefined table.
C30_DistinctUnknownCodes ==
    pc = "codes" =>
        /\ \A a, b \in unknownNames :
              trim(a) # trim(b) =>
                  /\ scOut[a] # scOut[b]
                  /\ ~checkLanguageMatch(scOut[a], scOut[b])
        /\ \A name \in DOMAIN dynamicLanguageCodes :
              dynamicLanguageCodes[name] \notin predefinedCodes

====
